---- MODULE Spec2Model ----
(***************************************************************************)
(* Model of the rotation scheduling engine (RotateTimer) and its           *)
(* subscriber registry.                                                    *)
(*                                                                         *)
(* Instants are milliseconds counted from a UTC midnight (the model        *)
(* origin).  One server day (86400000 ms) is exactly 40 Erinn days         *)
(* (2160000 ms), so every "% TIME_PER_ERINN_DAY" and every                 *)
(* milliseconds-after-midnight of the source has the same value on model   *)
(* instants as on unix-epoch milliseconds.                                 *)
(*                                                                         *)
(* rotationData is the sequence of <<list index, start instant>> pairs     *)
(* that the source stores flattened in one array.                          *)
(***************************************************************************)
EXTENDS Integers, Sequences, FiniteSets, Bags, TLC

VARIABLES
    list, compress, epoch, erinnTimes, serverTimes, changeEveryDuration,
    rotationType, dst, page,
    now,
    rotation, rotationData, timeout, timerDisplays, depth, query, queryDepth,
    queryChanged,
    wakes,
    received, shared, notified, lastOp, rebuilt, hung,
    call, _allowConstructor,
    twin

settings == <<list, compress, epoch, erinnTimes, serverTimes,
              changeEveryDuration, rotationType, dst, page, call,
              _allowConstructor>>
engine == <<rotation, rotationData, timeout, timerDisplays, depth, query,
            queryDepth, queryChanged>>
vars == <<settings, now, engine, wakes, received, shared, notified, lastOp,
          rebuilt, hung, twin>>

----------------------------------------------------------------------------
(* Program constants *)

TIME_PER_ERINN_MINUTE == 1500
TIME_PER_ERINN_HOUR == TIME_PER_ERINN_MINUTE * 60
TIME_PER_ERINN_DAY == TIME_PER_ERINN_HOUR * 24
ERINN_TIME_OFFSET == TIME_PER_ERINN_HOUR * 8
TIME_PER_SERVER_DAY == 86400000
DefaultDepth == 2

(* Model bounds and input sets *)

Minute == 60000
Hour == 3600000

\* The clock runs over the instants WindowStart + k * GridStep, k in 0..MaxTicks.
GridStep == 30 * Minute
WindowStart == 2 * TIME_PER_SERVER_DAY + 7 * Hour
MaxTicks == 8
MaxNow == WindowStart + MaxTicks * GridStep
\* A delayed wake: the clock may advance by any of these numbers of grid steps.
TickSteps == {1, 4}
\* Iterations after which a schedule loop is taken to run forever.
LoopCap == 40

Undefined == "undefined"
Infinity == 2000000000
NoTimeout == [armed |-> FALSE, at |-> 0]

----------------------------------------------------------------------------
(* Subscribers: the displays that may attach, with their depth and query *)

Displays == {"d1", "d2", "d3", "d4"}

DisplayDepth(d) ==
    CASE d = "d1" -> 1
      [] d = "d2" -> 3
      [] d = "d3" -> 2
      [] d = "d4" -> 3

DisplayQuery(d) ==
    CASE d = "d1" -> {}
      [] d = "d2" -> {"A", "X"}
      [] d = "d3" -> {"C", "Y"}
      [] d = "d4" -> {}

\* An object that is not an instance of TimerDisplay
NotADisplay == "object"

\* display instanceof TimerDisplay
IsTimerDisplay(d) == d \in Displays

----------------------------------------------------------------------------
(* Arithmetic as the source's language computes it *)

\* JavaScript a % b : the result takes the sign of the dividend
JsRem(a, b) == IF a >= 0 THEN a % b ELSE 0 - ((0 - a) % b)

Min(a, b) == IF a < b THEN a ELSE b
Max(a, b) == IF a > b THEN a ELSE b

\* this.list[index] : undefined outside 0..length-1
ListAt(index) ==
    IF index >= 0 /\ index < Len(list) THEN list[index + 1] ELSE Undefined

----------------------------------------------------------------------------
(* Query bookkeeping of the schedule loops *)

\* Mutant: a query counts as fulfilled at its first match
UpdateQueries_FulfilledAtFirstMatch(q, remainingQuery, remainingQueryAmount, listValue) ==
    IF remainingQueryAmount > 0
    THEN [remainingQuery |->
              [k \in 1..Len(q) |->
                  IF listValue \in q[k] THEN remainingQuery[k] - 1
                  ELSE remainingQuery[k]],
          remainingQueryAmount |->
              remainingQueryAmount -
              Cardinality({k \in 1..Len(q) :
                              listValue \in q[k] /\ remainingQuery[k] >= 1})]
    ELSE [remainingQuery |-> remainingQuery,
          remainingQueryAmount |-> remainingQueryAmount]

\* One pass of "Update queries": every query that includes listValue loses
\* one from its remaining count; a count reaching exactly 0 fulfils the query.
UpdateQueries(q, remainingQuery, remainingQueryAmount, listValue) ==
    IF remainingQueryAmount > 0
    THEN [remainingQuery |->
              [k \in 1..Len(q) |->
                  IF listValue \in q[k] THEN remainingQuery[k] - 1
                  ELSE remainingQuery[k]],
          remainingQueryAmount |->
              remainingQueryAmount -
              Cardinality({k \in 1..Len(q) :
                              listValue \in q[k] /\ remainingQuery[k] = 1})]
    ELSE [remainingQuery |-> remainingQuery,
          remainingQueryAmount |-> remainingQueryAmount]

\* Mutant: the rebuild test forgets to compare the rotation
NeedsRebuild_IgnoresRotation(lastRotation, newRotation, data, dep, qChanged) ==
    Len(data) < dep \/ qChanged

\* The test that decides whether a recomputation rebuilds rotationData
NeedsRebuild(lastRotation, newRotation, data, dep, qChanged) ==
    lastRotation # newRotation \/ Len(data) < dep \/ qChanged

\* Store previous active entry: <<>> or the first pair of rotationData
PreviousActiveEntry(data) == IF Len(data) > 0 THEN data[1] ELSE <<>>

----------------------------------------------------------------------------
(* changeEvery: #updateRotationChangeEvery *)

RotationChangeEvery(currentTime) ==
    (currentTime - epoch) \div changeEveryDuration

WaitTimeChangeEvery(currentTime) ==
    changeEveryDuration - JsRem(currentTime - epoch, changeEveryDuration)

\* Mutant: the loops stop at depth whatever the queries still need
LoopContinues_IgnoresQueries(length, dep, remainingQueryAmount) ==
    length < dep

\* Mutant: the loops run until the schedule is longer than depth
LoopContinues_PastDepth(length, dep, remainingQueryAmount) ==
    length <= dep \/ remainingQueryAmount > 0

\* The condition of both for loops: "Loop until depth is reached and no
\* query remains unfulfilled"; length is the number of recorded entries
LoopContinues(length, dep, remainingQueryAmount) ==
    length < dep \/ remainingQueryAmount > 0

\* The for loop that fills rotationData; [hung |-> TRUE] when it never ends
RECURSIVE ChangeEveryLoop(_, _, _, _, _, _, _, _, _)
ChangeEveryLoop(comp, rot, dep, q, previousActiveEntry, i, data, remainingQuery, remainingQueryAmount) ==
    IF ~LoopContinues(Len(data), dep, remainingQueryAmount)
    THEN [hung |-> FALSE, data |-> data]
    ELSE IF i > LoopCap
    THEN [hung |-> TRUE, data |-> data]
    ELSE IF comp /\ i # 0
            /\ ListAt(data[Len(data)][1]) = ListAt(JsRem(rot + i, Len(list)))
    THEN ChangeEveryLoop(comp, rot, dep, q, previousActiveEntry, i + 1, data,
                         remainingQuery, remainingQueryAmount)
    ELSE LET keep == comp /\ i = 0 /\ previousActiveEntry # <<>>
                     /\ ListAt(JsRem(rot, Len(list)))
                          = ListAt(previousActiveEntry[1])
             entry == IF keep THEN previousActiveEntry
                      ELSE <<JsRem(rot + i, Len(list)),
                             epoch + (rot + i) * changeEveryDuration>>
             newData == Append(data, entry)
             u == UpdateQueries(q, remainingQuery, remainingQueryAmount,
                                ListAt(entry[1]))
         IN ChangeEveryLoop(comp, rot, dep, q, previousActiveEntry, i + 1,
                            newData, u.remainingQuery, u.remainingQueryAmount)

\* Result of one call of updateRotation for a changeEvery timer, from the
\* engine fields lastRotation, data, dep, q, qDepth, qChanged at instant
\* currentTime; comp is the engine's compress flag.
UpdateRotationChangeEvery(comp, currentTime, lastRotation, data, dep, q, qDepth, qChanged) ==
    LET rot == RotationChangeEvery(currentTime)
        rebuild == NeedsRebuild(lastRotation, rot, data, dep, qChanged)
        loop == IF rebuild
                THEN ChangeEveryLoop(comp, rot, dep, q,
                                     PreviousActiveEntry(data), 0, <<>>,
                                     qDepth, Len(qDepth))
                ELSE [hung |-> FALSE, data |-> data]
    IN [rotation |-> rot, rotationData |-> loop.data, rebuilt |-> rebuild,
        hung |-> loop.hung, waitTime |-> WaitTimeChangeEvery(currentTime)]

----------------------------------------------------------------------------
(* Server time zone (America/Los_Angeles) *)

\* The instant, inside the clock window, at which the server clock changes:
\* 02:00 PST -> 03:00 PDT ("spring") or 02:00 PDT -> 01:00 PST ("fall")
DstInstant ==
    IF dst = "spring" THEN 2 * TIME_PER_SERVER_DAY + 10 * Hour
    ELSE 2 * TIME_PER_SERVER_DAY + 9 * Hour

\* SERVER_TIMEZONE: the server's wall clock minus UTC at instant t, in ms
\* (PST is UTC-8, PDT is UTC-7)
SERVER_TIMEZONE(t) ==
    CASE dst = "none" -> 0 - 8 * Hour
      [] dst = "spring" -> IF t < DstInstant THEN 0 - 8 * Hour ELSE 0 - 7 * Hour
      [] dst = "fall" -> IF t < DstInstant THEN 0 - 7 * Hour ELSE 0 - 8 * Hour

\* getTimezoneOffset(SERVER_TIMEZONE, t): the offset of the server's wall
\* clock from UTC at instant t, in ms
getTimezoneOffset(t) == SERVER_TIMEZONE(t)

\* Wall-clock milliseconds after the server's midnight at instant t, as the
\* hour, minute, second and fractionalSecond parts formatted in the server
\* time zone give them
dateToMillisecondsAfterServerMidnight(t) ==
    (t + SERVER_TIMEZONE(t)) % TIME_PER_SERVER_DAY

\* Milliseconds into the Erinn day at instant t
MillisecondsInErinnDay(t) == (t + ERINN_TIME_OFFSET) % TIME_PER_ERINN_DAY

----------------------------------------------------------------------------
(* Array helpers over the sorted trigger arrays; -1 stands for undefined *)

NotFound == 0 - 1

\* times.filter(t => t > lo && t <= hi).length
CountBetween(times, lo, hi) ==
    Cardinality({k \in 1..Len(times) : times[k] > lo /\ times[k] <= hi})

\* times.filter(t => t > lo).length
CountAfter(times, lo) ==
    Cardinality({k \in 1..Len(times) : times[k] > lo})

\* times.filter(t => t <= hi).length
CountUpTo(times, hi) ==
    Cardinality({k \in 1..Len(times) : times[k] <= hi})

\* times.find(t => t > x)
FindAfter(times, x) ==
    LET S == {k \in 1..Len(times) : times[k] > x}
    IN IF S = {} THEN NotFound
       ELSE times[CHOOSE k \in S : \A j \in S : k <= j]

\* arrayFindLast(times, t => t <= x)
arrayFindLast(times, x) ==
    LET S == {k \in 1..Len(times) : times[k] <= x}
    IN IF S = {} THEN NotFound
       ELSE times[CHOOSE k \in S : \A j \in S : k >= j]

----------------------------------------------------------------------------
(* changeAt: the rotation counter and the wait *)

\* epochTime after "Adjust epoch time for timezone difference"
AdjustedEpochTime(currentTime) ==
    epoch + getTimezoneOffset(epoch) - getTimezoneOffset(currentTime)

\* Mutant: the counter is not reset before the triggers are counted
RotationBase_NoReset(lastRotation) == lastRotation

\* Mutant: the count starts from the item index of the last recomputation
RotationBase_FromLastIndex(lastRotation) == JsRem(lastRotation, Len(list))

\* "Reset rotation to recalculate it from scratch"
RotationBase(lastRotation) == 0

\* Erinn times that lie between epochTime and currentTime
ErinnTimesPassed(epochTime, currentTime) ==
    LET endInErinnDay == MillisecondsInErinnDay(currentTime)
        startInDay == MillisecondsInErinnDay(epochTime)
        elapsedTime == currentTime - epochTime
    IN IF Len(erinnTimes) = 0 THEN 0
       ELSE IF endInErinnDay - startInDay = elapsedTime
       THEN CountBetween(erinnTimes, startInDay, endInErinnDay)
       ELSE IF (TIME_PER_ERINN_DAY - startInDay) + endInErinnDay = elapsedTime
       THEN CountAfter(erinnTimes, startInDay)
            + CountUpTo(erinnTimes, endInErinnDay)
       ELSE CountAfter(erinnTimes, startInDay)
            + CountUpTo(erinnTimes, endInErinnDay)
            + Len(erinnTimes)
              * ((elapsedTime - (TIME_PER_ERINN_DAY - startInDay)
                  - endInErinnDay) \div TIME_PER_ERINN_DAY)

\* Rotations contributed by the Erinn times
ErinnRotations(currentTime) ==
    ErinnTimesPassed(AdjustedEpochTime(currentTime), currentTime)

\* Rotations contributed by the Server times
ServerRotations(currentTime) ==
    LET epochTime == AdjustedEpochTime(currentTime)
        endInServerDay == dateToMillisecondsAfterServerMidnight(currentTime)
        startInDay == dateToMillisecondsAfterServerMidnight(epoch)
        elapsedTime == currentTime - epochTime
    IN IF Len(serverTimes) = 0 THEN 0
       ELSE IF endInServerDay - startInDay = elapsedTime
       THEN CountBetween(serverTimes, startInDay, endInServerDay)
       ELSE IF (TIME_PER_SERVER_DAY - startInDay) + endInServerDay = elapsedTime
       THEN CountAfter(serverTimes, startInDay)
            + CountUpTo(serverTimes, endInServerDay)
       ELSE CountAfter(serverTimes, startInDay)
            + CountUpTo(serverTimes, endInServerDay)
            + Len(serverTimes)
              * ((elapsedTime - (TIME_PER_SERVER_DAY - startInDay)
                  - endInServerDay) \div TIME_PER_SERVER_DAY)

RotationChangeAt(currentTime, lastRotation) ==
    RotationBase(lastRotation) + ErinnRotations(currentTime)
    + ServerRotations(currentTime)

\* Milliseconds from position endInDay to the next time of one calendar
NextScheduledTime(times, endInDay, dayLength) ==
    LET found == FindAfter(times, endInDay)
    IN IF found # NotFound THEN found - endInDay
       ELSE times[1] + dayLength - endInDay

WaitTimeChangeAt(currentTime) ==
    LET w0 == Infinity
        w1 == IF Len(erinnTimes) > 0
              THEN Max(Min(w0, NextScheduledTime(erinnTimes,
                                   MillisecondsInErinnDay(currentTime),
                                   TIME_PER_ERINN_DAY)), 1)
              ELSE w0
    IN IF Len(serverTimes) > 0
       THEN Max(Min(w1, NextScheduledTime(serverTimes,
                            dateToMillisecondsAfterServerMidnight(currentTime),
                            TIME_PER_SERVER_DAY)), 1)
       ELSE w1

----------------------------------------------------------------------------
(* changeAt: building rotationData *)

\* "For index 0, get the start time immediately at or before the current
\* time", in one calendar; 0 when the calendar has no times
LastTimeAtOrBefore(times, currentTime, endInDay, dayLength) ==
    IF Len(times) = 0 THEN 0
    ELSE LET found == arrayFindLast(times, endInDay)
         IN IF found # NotFound THEN currentTime - (endInDay - found)
            ELSE currentTime - endInDay - (dayLength - times[Len(times)])

\* Start instant of entry 0: "Use the highest time"
FirstStartTime(currentTime) ==
    LET lastErinnTime ==
            LastTimeAtOrBefore(erinnTimes, currentTime,
                               MillisecondsInErinnDay(currentTime),
                               TIME_PER_ERINN_DAY)
        lastServerTime ==
            LastTimeAtOrBefore(serverTimes, currentTime,
                               dateToMillisecondsAfterServerMidnight(currentTime),
                               TIME_PER_SERVER_DAY)
    IN IF lastErinnTime > lastServerTime THEN lastErinnTime ELSE lastServerTime

\* "get the start time immediately after the previous start time", in one
\* calendar; Infinity when the calendar has no times
NextTimeAfter(times, lastRotationTime, lastEndInDay, dayLength) ==
    IF Len(times) = 0 THEN Infinity
    ELSE LET found == FindAfter(times, lastEndInDay)
         IN IF found # NotFound
            THEN lastRotationTime + (found - lastEndInDay)
            ELSE lastRotationTime + (dayLength - lastEndInDay) + times[1]

\* Start instant of the entry after one that starts at lastRotationTime:
\* "Use the lowest time"
NextStartTime(lastRotationTime) ==
    LET nextErinnTime ==
            NextTimeAfter(erinnTimes, lastRotationTime,
                          MillisecondsInErinnDay(lastRotationTime),
                          TIME_PER_ERINN_DAY)
        nextServerTime ==
            NextTimeAfter(serverTimes, lastRotationTime,
                          dateToMillisecondsAfterServerMidnight(lastRotationTime),
                          TIME_PER_SERVER_DAY)
    IN IF nextErinnTime < nextServerTime THEN nextErinnTime ELSE nextServerTime

\* Mutant: entry 0 of the compressed data is always the fresh entry
FirstCompressedEntry_AlwaysFresh(rot, previousActiveEntry, firstEntry) ==
    firstEntry

\* Entry 0 of the compressed data: the previous active entry when its value
\* is still the active value, the fresh entry otherwise
FirstCompressedEntry(rot, previousActiveEntry, firstEntry) ==
    IF previousActiveEntry # <<>>
       /\ ListAt(JsRem(rot, Len(list))) = ListAt(previousActiveEntry[1])
    THEN previousActiveEntry
    ELSE firstEntry

\* Mutant: compression compares list indexes instead of list values
DiffersFromLastRecorded_ByIndex(index, compressed) ==
    index # compressed[Len(compressed)][1]

\* With compress, an entry is recorded only if its value is not the value of
\* the last recorded entry
DiffersFromLastRecorded(index, compressed) ==
    ListAt(index) # ListAt(compressed[Len(compressed)][1])

\* The for loop "Rest of rotationData": data is the uncompressed
\* rotationData, compressed is compressedRotationData
RECURSIVE ChangeAtLoop(_, _, _, _, _, _, _, _, _)
ChangeAtLoop(comp, rot, dep, q, i, data, compressed, remainingQuery, remainingQueryAmount) ==
    IF ~LoopContinues(IF comp THEN Len(compressed) ELSE i, dep,
                      remainingQueryAmount)
    THEN [hung |-> FALSE, data |-> IF comp THEN compressed ELSE data]
    ELSE IF i > LoopCap
    THEN [hung |-> TRUE, data |-> IF comp THEN compressed ELSE data]
    ELSE LET index == JsRem(rot + i, Len(list))
             entry == <<index, NextStartTime(data[i][2])>>
             record == ~comp \/ DiffersFromLastRecorded(index, compressed)
             u == IF record
                  THEN UpdateQueries(q, remainingQuery, remainingQueryAmount,
                                     ListAt(index))
                  ELSE [remainingQuery |-> remainingQuery,
                        remainingQueryAmount |-> remainingQueryAmount]
         IN ChangeAtLoop(comp, rot, dep, q, i + 1, Append(data, entry),
                         IF comp /\ record THEN Append(compressed, entry)
                         ELSE compressed,
                         u.remainingQuery, u.remainingQueryAmount)

\* Result of one call of updateRotation for a changeAt timer
UpdateRotationChangeAt(comp, currentTime, lastRotation, data, dep, q, qDepth, qChanged) ==
    LET rot == RotationChangeAt(currentTime, lastRotation)
        rebuild == NeedsRebuild(lastRotation, rot, data, dep, qChanged)
        firstEntry == <<JsRem(rot, Len(list)), FirstStartTime(currentTime)>>
        compressed0 == IF comp
                       THEN <<FirstCompressedEntry(rot,
                                  PreviousActiveEntry(data), firstEntry)>>
                       ELSE <<>>
        u == UpdateQueries(q, qDepth, Len(qDepth), ListAt(firstEntry[1]))
        loop == IF rebuild
                THEN ChangeAtLoop(comp, rot, dep, q, 1, <<firstEntry>>, compressed0,
                                  u.remainingQuery, u.remainingQueryAmount)
                ELSE [hung |-> FALSE, data |-> data]
    IN [rotation |-> rot, rotationData |-> loop.data, rebuilt |-> rebuild,
        hung |-> loop.hung, waitTime |-> WaitTimeChangeAt(currentTime)]

\* this.updateRotation, bound by the constructor to one of the two methods
UpdateRotation(comp, currentTime, lastRotation, data, dep, q, qDepth, qChanged) ==
    IF rotationType = "changeEvery"
    THEN UpdateRotationChangeEvery(comp, currentTime, lastRotation, data, dep,
                                   q, qDepth, qChanged)
    ELSE UpdateRotationChangeAt(comp, currentTime, lastRotation, data, dep, q,
                                qDepth, qChanged)

----------------------------------------------------------------------------
(* Subscriber registry *)

SeqToSet(sq) == {sq[k] : k \in 1..Len(sq)}

\* Map.delete: the remaining displays keep their insertion order
RemoveDisplay(sq, d) == SelectSeq(sq, LAMBDA x : x # d)

HasQuery(d) == DisplayQuery(d) # {}

\* Mutant: the registry never reports a display as attached
IsAttached_Never(displays, d) == FALSE

\* this.timerDisplays.has(display)
IsAttached(displays, d) == d \in SeqToSet(displays)

\* Mutant: the depth is left as it was
recalculateDepth_KeepsDepth(displays) == depth

\* recalculateDepth
RECURSIVE recalculateDepth(_)
recalculateDepth(displays) ==
    IF displays = <<>> THEN DefaultDepth
    ELSE LET rest == recalculateDepth(SubSeq(displays, 1, Len(displays) - 1))
             d == displays[Len(displays)]
         IN IF rest > DisplayDepth(d) THEN rest ELSE DisplayDepth(d)

\* Mutant: the old queries are not dropped
recalculateQuery_KeepsOld(displays) ==
    [query |-> query, queryDepth |-> queryDepth]

\* recalculateQuery: the query of every attached display that has one, and
\* that display's depth, in the Map's iteration order
recalculateQuery(displays) ==
    LET withQuery == SelectSeq(displays, HasQuery)
    IN [query |-> [k \in 1..Len(withQuery) |-> DisplayQuery(withQuery[k])],
        queryDepth |-> [k \in 1..Len(withQuery) |-> DisplayDepth(withQuery[k])]]

\* display.updateData(newTimerData): the contents of the array newTimerData
\* when the call returns.  A display with a query removes, in place, every
\* entry whose value is not in its query.
updateData(d, newTimerData) ==
    IF HasQuery(d)
    THEN SelectSeq(newTimerData,
                   LAMBDA entry : ListAt(entry[1]) \in DisplayQuery(d))
    ELSE newTimerData

\* Nothing handed to any display
NothingReceived == [d \in Displays |-> <<>>]

\* Mutant: the display attached last is left out
updateAllDisplays_SkipsLast(displays, data) ==
    [d \in Displays |->
        IF d \in SeqToSet(SubSeq(displays, 1, Len(displays) - 1)) THEN data
        ELSE <<>>]

\* updateAllDisplays: every attached display is handed a copy of data
updateAllDisplays(displays, data) ==
    [d \in Displays |-> IF d \in SeqToSet(displays) THEN data ELSE <<>>]

----------------------------------------------------------------------------
(* Settings strings.  A time string is the record of what its text holds:  *)
(* the calendar letter and the numbers between the colons and the period   *)
(* (f has 2, 3 or 4 numbers: hh:mm, hh:mm:ss, hh:mm:ss.sss, milliseconds   *)
(* written with three digits).  A date-time string is the record of its    *)
(* numbers.  Text that has no such shape is Junk.                          *)

Null == [null |-> TRUE]
Junk == [text |-> "junk"]
SunshiftString == [text |-> "sunshift"]
SunShiftString == [text |-> "SunShift"]

\* toLowerCase of the texts that occur in the settings
ToLowerCase(str) ==
    CASE str = "TRUE" -> "true"
      [] str = "False" -> "false"
      [] str = "SunShift" -> "sunshift"
      [] OTHER -> str

\* value.toLowerCase() === 'sunshift'
IsSunshift(str) == ToLowerCase(str.text) = "sunshift"

TimeString(cal, f) == [text |-> "time", cal |-> cal, f |-> f]

\* A time string with numbers of many digits: number k is
\* hi[k] * Limb + f[k], with f[k] < Limb
Limb == 1073741824
LongTimeString(cal, f, hi) == [text |-> "time", cal |-> cal, f |-> f, hi |-> hi]
High(str, k) == IF "hi" \in DOMAIN str THEN str.hi[k] ELSE 0

\* n | 0 for n = hi * Limb + lo: the low 32 bits of n as a signed integer
BitOrZero(hi, lo) ==
    IF hi % 4 < 2 THEN (hi % 4) * Limb + lo ELSE ((hi % 4) - 4) * Limb + lo

\* Number(text) of number k, which the model can hold only below 2^31
NumberOf(str, k) == High(str, k) * Limb + str.f[k]
DateTimeString(y, mo, d, h, mi, s, ms) ==
    [text |-> "datetime", year |-> y, month |-> mo, day |-> d, hour |-> h,
     minute |-> mi, second |-> s, millisecond |-> ms]

\* Number k of a time string, "or use 0"
Field(str, k) ==
    IF k <= Len(str.f) THEN BitOrZero(High(str, k), str.f[k]) ELSE 0

\* validateDurationTimeStrings for one string: the regular expression
\* accepts any number of digits; an Erinn string is hh:mm only
validateDurationTimeString(str) ==
    /\ str.text = "time"
    /\ IF str.cal = "E" THEN Len(str.f) = 2 ELSE Len(str.f) \in 2..4

\* validateTimeStrings for one string: one or two digits per number, three
\* for milliseconds, and every number in its range
validateTimeString(str) ==
    /\ str.text = "time"
    /\ IF str.cal = "E" THEN Len(str.f) = 2 ELSE Len(str.f) \in 2..4
    /\ \A k \in 1..Len(str.f) :
           High(str, k) = 0 /\ str.f[k] < (IF k = 4 THEN 1000 ELSE 100)
    /\ ~(Field(str, 1) < 0 \/ Field(str, 1) > 23
         \/ Field(str, 2) < 0 \/ Field(str, 2) > 59
         \/ Field(str, 3) < 0 \/ Field(str, 3) > 59
         \/ Field(str, 4) < 0 \/ Field(str, 4) > 999)

validateTimeStrings(times) ==
    \A k \in 1..Len(times) : validateTimeString(times[k])

validateDurationTimeStrings(times) ==
    \A k \in 1..Len(times) : validateDurationTimeString(times[k])

\* convertTimeStringToRealMilliseconds of a string that passed
\* validateDurationTimeStrings
convertTimeStringToRealMilliseconds(str, fromMidnight) ==
    IF str.cal = "E"
    THEN LET totalErinnMinutes == NumberOf(str, 1) * 60 + NumberOf(str, 2)
         IN (IF fromMidnight THEN totalErinnMinutes % 1440
             ELSE totalErinnMinutes) * TIME_PER_ERINN_MINUTE
    ELSE LET totalMilliseconds ==
                 Field(str, 1) * Hour + Field(str, 2) * Minute
                 + Field(str, 3) * 1000 + Field(str, 4)
         IN IF fromMidnight THEN totalMilliseconds % TIME_PER_SERVER_DAY
            ELSE totalMilliseconds

isLeapYear(year) ==
    (year % 4 = 0 /\ year % 100 # 0) \/ year % 400 = 0

daysInMonth(year, month) ==
    <<31, IF isLeapYear(year) THEN 29 ELSE 28, 31, 30, 31, 30, 31, 31, 30,
      31, 30, 31>>[month]

\* Mutant: February always has 29 days
parseServerDateTime_NoLeapRule(input) ==
    IF input.text # "datetime" THEN Null
    ELSE IF input.month < 1 \/ input.month > 12 THEN Null
    ELSE IF input.day < 1
            \/ input.day > <<31, 29, 31, 30, 31, 30, 31, 31, 30, 31, 30,
                             31>>[input.month]
    THEN Null
    ELSE IF input.hour > 23 \/ input.minute > 59 \/ input.second > 59
            \/ input.millisecond > 999
    THEN Null
    ELSE input

\* parseServerDateTime: Null (false in the source) unless the text has the
\* date-time shape and every number is in its range; otherwise the numbers
parseServerDateTime(input) ==
    IF input.text # "datetime" THEN Null
    ELSE IF input.month < 1 \/ input.month > 12 THEN Null
    ELSE IF input.day < 1 \/ input.day > daysInMonth(input.year, input.month)
    THEN Null
    ELSE IF input.hour > 23 \/ input.minute > 59 \/ input.second > 59
            \/ input.millisecond > 999
    THEN Null
    ELSE input

----------------------------------------------------------------------------
(* #validateParameters.  args has the four keys the engine reads; a key    *)
(* that is absent from the settings holds <<>> (the settings parser never  *)
(* produces an empty array).  A list item is [value, changeAt].            *)

\* parseListSettings: the value of a list item and its own changeAt strings
parseListSettings(item) == [value |-> item.value, changeAt |-> item.changeAt]

InArgs(args, key) == args[key] # <<>>

\* A list item's changeAt string as lines 339-390 rewrite it: sunshift
\* becomes 06:00E and 18:00E, an Erinn time is padded, a Server time is
\* padded and, when it has no milliseconds, gets ".000" appended to a
\* seconds field that already ends in a period, which is no time string
FullTimeStrings(value) ==
    IF IsSunshift(value)
    THEN <<TimeString("E", <<6, 0>>), TimeString("E", <<18, 0>>)>>
    ELSE IF value.cal = "S" /\ Len(value.f) < 4 THEN <<Junk>>
    ELSE <<value>>

\* The calendar letter a list item's changeAt string counts as
ChangeAtTypeOf(value) == IF IsSunshift(value) THEN "E" ELSE value.cal

RECURSIVE Flatten(_)
Flatten(seqs) ==
    IF seqs = <<>> THEN <<>> ELSE Head(seqs) \o Flatten(Tail(seqs))

\* invalidTime of lines 331-403: some list changeAt string does not end in
\* S or E, or is not a valid time, or the strings are not all of one type
InvalidListChangeAt(listChangeAt) ==
    LET all == Flatten(listChangeAt)
    IN \/ \E k \in 1..Len(all) :
              ~IsSunshift(all[k]) /\ ~validateTimeString(all[k])
       \/ \E j, k \in 1..Len(all) :
              ChangeAtTypeOf(all[j]) # ChangeAtTypeOf(all[k])

\* Lines 407-424: one entry per changeAt time of every list item
RECURSIVE SplitList(_, _)
SplitList(listValues, listChangeAt) ==
    IF listValues = <<>> THEN <<>>
    ELSE LET times == Flatten([k \in 1..Len(Head(listChangeAt)) |->
                                  FullTimeStrings(Head(listChangeAt)[k])])
         IN [k \in 1..Len(times) |->
                [changeAt |-> times[k], value |-> Head(listValues)]]
            \o SplitList(Tail(listValues), Tail(listChangeAt))

\* The number the sort's comparator gives a changeAt string: the
\* milliseconds of the Date built from it (not a number for Junk)
SortKey(str) ==
    IF str.text # "time" THEN 0
    ELSE convertTimeStringToRealMilliseconds(str, FALSE)

\* Mutant: the split list is left in document order
SortCombined_Unsorted(combined) == combined

\* combined.sort(...), lines 433-439: ascending by time, equal times in
\* their original order
SortCombined(combined) ==
    LET Before(j, k) ==
            \/ SortKey(combined[j].changeAt) < SortKey(combined[k].changeAt)
            \/ /\ SortKey(combined[j].changeAt) = SortKey(combined[k].changeAt)
               /\ j < k
        rank(k) == 1 + Cardinality({j \in 1..Len(combined) : Before(j, k)})
    IN [r \in 1..Len(combined) |->
           combined[CHOOSE k \in 1..Len(combined) : rank(k) = r]]

\* listEpoch, lines 452-460: 2024-11-01 at the first Server time, or the
\* Erinn midnight 2024-11-01T03:00:00.000S plus the first Erinn time
ListEpochOf(first) ==
    IF first.text # "time" THEN Junk
    ELSE IF first.cal = "S"
    THEN DateTimeString(2024, 11, 1, Field(first, 1), Field(first, 2),
                        Field(first, 3), Field(first, 4))
    ELSE LET erinnMilliseconds == Field(first, 1) * TIME_PER_ERINN_HOUR
                                  + Field(first, 2) * TIME_PER_ERINN_MINUTE
         IN DateTimeString(2024, 11, 1, 3, erinnMilliseconds \div 60000,
                           (erinnMilliseconds % 60000) \div 1000,
                           erinnMilliseconds % 1000)

\* Mutant: only the lower-case spelling is recognised
UpdatedChangeAt_CaseSensitive(changeAt) ==
    Flatten([k \in 1..Len(changeAt) |->
                IF changeAt[k].text = "sunshift"
                THEN <<TimeString("E", <<6, 0>>), TimeString("E", <<18, 0>>)>>
                ELSE <<changeAt[k]>>])

\* Lines 501-506: sunshift in changeAt becomes 06:00E and 18:00E
UpdatedChangeAt(changeAt) ==
    Flatten([k \in 1..Len(changeAt) |->
                IF IsSunshift(changeAt[k])
                THEN <<TimeString("E", <<6, 0>>), TimeString("E", <<18, 0>>)>>
                ELSE <<changeAt[k]>>])

\* sort((a,b) => a - b) of the milliseconds of the strings of one calendar
SortedTimesOf(strings, cal) ==
    LET mine == SelectSeq(strings, LAMBDA str : str.cal = cal)
        ms(k) == convertTimeStringToRealMilliseconds(mine[k], TRUE)
        rank(k) == 1 + Cardinality({j \in 1..Len(mine) :
                                       ms(j) < ms(k)
                                       \/ (ms(j) = ms(k) /\ j < k)})
    IN [r \in 1..Len(mine) |->
           ms(CHOOSE k \in 1..Len(mine) : rank(k) = r)]

\* Mutant: both rules together are accepted
RuleCountOk_AllowsBoth(args, hasListChangeAt) ==
    /\ InArgs(args, "changeAt") \/ hasListChangeAt \/ InArgs(args, "changeEvery")
    /\ ~(InArgs(args, "changeEvery") /\ Len(args.changeEvery) > 1)

\* Lines 486-488: changeAt (list-wide or in the list) or changeEvery, not
\* both, and one changeEvery at most
RuleCountOk(args, hasListChangeAt) ==
    /\ InArgs(args, "changeAt") \/ hasListChangeAt \/ InArgs(args, "changeEvery")
    /\ ~((InArgs(args, "changeAt") \/ hasListChangeAt)
         /\ InArgs(args, "changeEvery"))
    /\ ~(InArgs(args, "changeEvery") /\ Len(args.changeEvery) > 1)

\* Mutant: a timer changeAt or changeEvery next to list changeAt is accepted
ListChangeAtConflict_Ignored(args) == FALSE

\* Line 328: "If a timer's list entries have a changeAt, the timer can not
\* have a changeAt or changeEvery."
ListChangeAtConflict(args) ==
    InArgs(args, "changeAt") \/ InArgs(args, "changeEvery")

\* Lines 466-543, with listValues and listChangeAt as the list validation
\* left them (listChangeAt = <<>> stands for false) and listEpoch (Null
\* stands for false)
ValidateArgs(args, listValues, listChangeAt, listEpoch) ==
    LET hasListEpoch == listEpoch # Null
        hasListChangeAt == listChangeAt # <<>>
        parsedEpoch == IF hasListEpoch THEN parseServerDateTime(listEpoch)
                 ELSE parseServerDateTime(args.epoch[1])
        changeAt == IF InArgs(args, "changeAt") THEN args.changeAt
                    ELSE listChangeAt
        updatedChangeAt == UpdatedChangeAt(changeAt)
        duration ==
            IF InArgs(args, "changeEvery")
            THEN convertTimeStringToRealMilliseconds(args.changeEvery[1], FALSE)
            ELSE 0
    IN IF ~InArgs(args, "epoch") /\ ~hasListEpoch THEN Null
       ELSE IF ~hasListEpoch /\ Len(args.epoch) > 1 THEN Null
       ELSE IF parsedEpoch = Null THEN Null
       ELSE IF InArgs(args, "compress") /\ Len(args.compress) > 1 THEN Null
       ELSE IF InArgs(args, "compress")
               /\ ToLowerCase(args.compress[1]) \notin {"true", "false"}
       THEN Null
       ELSE IF ~RuleCountOk(args, hasListChangeAt) THEN Null
       ELSE IF changeAt # <<>> /\ ~validateTimeStrings(updatedChangeAt)
       THEN Null
       ELSE IF InArgs(args, "changeEvery")
               /\ ~validateDurationTimeStrings(args.changeEvery)
       THEN Null
       ELSE IF InArgs(args, "changeEvery") /\ duration < 1
       THEN Null
       ELSE [listValues |-> listValues,
             epoch |-> parsedEpoch,
             compress |-> (InArgs(args, "compress")
                           /\ ToLowerCase(args.compress[1]) = "true"),
             erinnTimes |-> SortedTimesOf(updatedChangeAt, "E"),
             serverTimes |-> SortedTimesOf(updatedChangeAt, "S"),
             changeEveryDuration |-> duration,
             rotationType |-> IF InArgs(args, "changeEvery")
                              THEN "changeEvery" ELSE "changeAt"]

\* #validateParameters({args, list}): Null or the validated parameters
validateParameters(args, rawList) ==
    IF Len(rawList) < 1 THEN Null
    ELSE LET parsed == [k \in 1..Len(rawList) |-> parseListSettings(rawList[k])]
             listValues == [k \in 1..Len(rawList) |-> parsed[k].value]
             listChangeAt == [k \in 1..Len(rawList) |-> parsed[k].changeAt]
         IN IF \E k \in 1..Len(rawList) : Len(listChangeAt[k]) > 0
            THEN IF ~(\A k \in 1..Len(rawList) : Len(listChangeAt[k]) > 0)
                 THEN Null
                 ELSE IF ListChangeAtConflict(args) THEN Null
                 ELSE IF InvalidListChangeAt(listChangeAt) THEN Null
                 ELSE LET combined ==
                              SortCombined(SplitList(listValues, listChangeAt))
                      IN ValidateArgs(
                             args,
                             [k \in 1..Len(combined) |-> combined[k].value],
                             [k \in 1..Len(combined) |-> combined[k].changeAt],
                             ListEpochOf(combined[1].changeAt))
            ELSE ValidateArgs(args, listValues, <<>>, Null)

RECURSIVE DaysBeforeMonth(_, _)
DaysBeforeMonth(year, month) ==
    IF month = 1 THEN 0
    ELSE DaysBeforeMonth(year, month - 1) + daysInMonth(year, month - 1)

\* Days from 2024-11-01, the day of the model origin when the server clock
\* falls back inside the clock window, to a calendar day
DaysSinceOrigin(year, month, day) ==
    LET LeapsBefore(y) == (y - 1) \div 4 - (y - 1) \div 100 + (y - 1) \div 400
    IN 365 * (year - 2024) + LeapsBefore(year) - LeapsBefore(2024)
       + DaysBeforeMonth(year, month) + day - (DaysBeforeMonth(2024, 11) + 1)

\* dateObject.getTime() of a parsed date-time for a viewer whose clock is in
\* the server's time zone: the instant at which the server's wall clock
\* shows these numbers
DateObject(parsed) ==
    LET wall == DaysSinceOrigin(parsed.year, parsed.month, parsed.day)
                    * TIME_PER_SERVER_DAY
                + parsed.hour * Hour + parsed.minute * Minute
                + parsed.second * 1000 + parsed.millisecond
    IN wall - SERVER_TIMEZONE(wall + 8 * Hour)

----------------------------------------------------------------------------
(* Raw settings handed to createInstance *)

T0600E == TimeString("E", <<6, 0>>)
T1200E == TimeString("E", <<12, 0>>)
T1800E == TimeString("E", <<18, 0>>)
T2000E == TimeString("E", <<20, 0>>)
T0130S == TimeString("S", <<1, 30>>)
T2300S == TimeString("S", <<23, 0>>)
T2500S == TimeString("S", <<25, 0>>)
T013000000S == TimeString("S", <<1, 30, 0, 0>>)
T230000000S == TimeString("S", <<23, 0, 0, 0>>)
D0100S == TimeString("S", <<1, 0>>)
D0000S == TimeString("S", <<0, 0>>)
D0200E == TimeString("E", <<2, 0>>)
D0090S == TimeString("S", <<0, 90>>)
D10000S == TimeString("S", <<100, 0>>)
D000000001S == TimeString("S", <<0, 0, 0, 1>>)
D000000000S == TimeString("S", <<0, 0, 0, 0>>)
D000075S == TimeString("S", <<0, 0, 75>>)
\* 4294967297:00S, 4294967296:00S and 00:00:00.2147484648S
D4294967297H00S == LongTimeString("S", <<1, 0>>, <<4, 0>>)
D4294967296H00S == LongTimeString("S", <<0, 0>>, <<4, 0>>)
D0000002147484648S == LongTimeString("S", <<0, 0, 0, 1000>>, <<0, 0, 0, 2>>)

Epoch20241101 == DateTimeString(2024, 11, 1, 0, 0, 0, 0)
EpochMonth13 == DateTimeString(2024, 13, 1, 0, 0, 0, 0)
EpochApril31 == DateTimeString(2024, 4, 31, 0, 0, 0, 0)
EpochFeb29of2023 == DateTimeString(2023, 2, 29, 0, 0, 0, 0)
EpochFeb29of2024 == DateTimeString(2024, 2, 29, 0, 0, 0, 0)
EpochFeb29of1900 == DateTimeString(1900, 2, 29, 0, 0, 0, 0)

EpochInputs ==
    {<<>>, <<Epoch20241101>>, <<Epoch20241101, Epoch20241101>>,
     <<EpochMonth13>>, <<EpochApril31>>, <<EpochFeb29of2023>>,
     <<EpochFeb29of2024>>, <<EpochFeb29of1900>>, <<Junk>>}

ChangeAtInputs ==
    {<<>>, <<SunshiftString>>, <<SunShiftString>>, <<T0600E, T1800E>>,
     <<T1800E, T0600E>>, <<T0130S, T2300S>>, <<T0600E, T0130S>>, <<T2500S>>}

ChangeEveryInputs ==
    {<<>>, <<D0100S>>, <<D0100S, D0200E>>, <<D0000S>>, <<D0200E>>, <<D0090S>>,
     <<D10000S>>, <<D000000001S>>, <<D000000000S>>, <<D000075S>>,
     <<D4294967297H00S>>, <<D4294967296H00S>>, <<D0000002147484648S>>}

CompressInputs == {<<>>, <<"TRUE">>, <<"yes">>}

ArgsInputs ==
    [epoch : EpochInputs, changeAt : ChangeAtInputs,
     changeEvery : ChangeEveryInputs, compress : CompressInputs]

Item(value, changeAt) == [value |-> value, changeAt |-> changeAt]

PlainList == <<Item("A", <<>>), Item("B", <<>>), Item("C", <<>>)>>
ErinnItems == <<Item("A", <<T2000E, T0600E>>), Item("B", <<T1200E>>)>>
SunshiftItems == <<Item("A", <<SunshiftString>>), Item("B", <<T1200E>>)>>
ServerItems == <<Item("A", <<T230000000S>>), Item("B", <<T013000000S>>)>>
ShortServerItems == <<Item("A", <<T0130S>>), Item("B", <<T2300S>>)>>
PartialItems == <<Item("A", <<T0600E>>), Item("B", <<>>)>>
MixedItems == <<Item("A", <<T0600E>>), Item("B", <<T013000000S>>)>>
MixedSunshiftItems ==
    <<Item("A", <<T013000000S>>), Item("B", <<SunshiftString>>)>>

ListInputs ==
    {<<>>, PlainList, ErinnItems, SunshiftItems, ServerItems,
     ShortServerItems, PartialItems, MixedItems, MixedSunshiftItems}

NoCall == [state |-> "none"]

----------------------------------------------------------------------------
(* Input configurations: validated settings of a rotate timer, each with  *)
(* the displays that exist on its page                                    *)

ListABC == <<"A", "B", "C">>
ListXXY == <<"X", "X", "Y">>
ListBB == <<"B", "B">>

\* changeAt times as <<erinnTimes, serverTimes>>
Sunshift == <<<<6 * TIME_PER_ERINN_HOUR, 18 * TIME_PER_ERINN_HOUR>>, <<>>>>
ServerOnly == <<<<>>, <<90 * Minute, 23 * Hour>>>>
Mixed == <<<<6 * TIME_PER_ERINN_HOUR>>, <<90 * Minute>>>>
ServerTwice == <<<<>>, <<90 * Minute, 90 * Minute, 23 * Hour>>>>

PastEpochEvery == WindowStart - 90 * Minute
FutureEpochEvery == WindowStart + 1 * Hour
PastEpochAt == 8 * Hour
FutureEpochAt == WindowStart + 90 * Minute

\* <<list, compress, epoch, displays on the page>>
ChangeEveryCases ==
    {<<ListABC, FALSE, PastEpochEvery, {"d1", "d2", "d3"}>>,
     <<ListXXY, TRUE, PastEpochEvery, {"d1", "d2", "d3"}>>,
     <<ListABC, FALSE, FutureEpochEvery, {"d1", "d3", "d4"}>>,
     <<ListXXY, TRUE, FutureEpochEvery, {"d1", "d2"}>>,
     <<ListBB, TRUE, PastEpochEvery, {"d1"}>>,
     <<ListBB, FALSE, PastEpochEvery, {"d1", "d2"}>>}

ChangeEverySettings ==
    {[rotationType |-> "changeEvery", list |-> c[1], compress |-> c[2],
      epoch |-> c[3], changeEveryDuration |-> 60 * Minute,
      erinnTimes |-> <<>>, serverTimes |-> <<>>, dst |-> "none",
      page |-> c[4]] : c \in ChangeEveryCases}

\* <<list, compress, epoch, times, dst, displays on the page>>
ChangeAtCases ==
    {<<ListABC, FALSE, PastEpochAt, Sunshift, "spring", {"d1", "d2"}>>,
     <<ListABC, FALSE, PastEpochAt, Sunshift, "fall", {"d1", "d4"}>>,
     <<ListXXY, TRUE, PastEpochAt, Sunshift, "spring", {"d2", "d3"}>>,
     <<ListXXY, TRUE, PastEpochAt, Sunshift, "fall", {"d1", "d2"}>>,
     <<ListABC, FALSE, PastEpochAt, ServerOnly, "spring", {"d1", "d4"}>>,
     <<ListABC, FALSE, PastEpochAt, ServerOnly, "fall", {"d1", "d2", "d3"}>>,
     <<ListXXY, TRUE, PastEpochAt, ServerOnly, "spring", {"d1", "d2"}>>,
     <<ListXXY, TRUE, PastEpochAt, ServerOnly, "fall", {"d2", "d3"}>>,
     <<ListABC, FALSE, PastEpochAt, Mixed, "spring", {"d2", "d3"}>>,
     <<ListABC, FALSE, PastEpochAt, Mixed, "fall", {"d1", "d2"}>>,
     <<ListXXY, TRUE, PastEpochAt, Mixed, "spring", {"d1", "d2", "d3"}>>,
     <<ListXXY, TRUE, PastEpochAt, Mixed, "fall", {"d1", "d3"}>>,
     <<ListABC, FALSE, FutureEpochAt, Mixed, "spring", {"d1", "d2"}>>,
     <<ListXXY, TRUE, FutureEpochAt, ServerOnly, "fall", {"d1", "d3"}>>,
     <<ListBB, TRUE, PastEpochAt, Sunshift, "fall", {"d4"}>>,
     <<ListBB, FALSE, PastEpochAt, ServerOnly, "spring", {"d1", "d3"}>>,
     <<ListABC, FALSE, PastEpochAt, ServerTwice, "fall", {"d1"}>>}

ChangeAtSettings ==
    {[rotationType |-> "changeAt", list |-> c[1], compress |-> c[2],
      epoch |-> c[3], changeEveryDuration |-> 0, erinnTimes |-> c[4][1],
      serverTimes |-> c[4][2], dst |-> c[5], page |-> c[6]] :
        c \in ChangeAtCases}

TimerSettings == ChangeEverySettings \cup ChangeAtSettings

\* Settings whose list items carry their own changeAt, as <<list, displays
\* on the page>>; their epoch is a time of 2024-11-01, so the server clock
\* falls back inside the clock window
NoArgs == [epoch |-> <<>>, changeAt |-> <<>>, changeEvery |-> <<>>,
           compress |-> <<>>]

ItemChangeAtCases ==
    {<<ErinnItems, {"d1", "d4"}>>, <<ServerItems, {"d1", "d2"}>>}

----------------------------------------------------------------------------
(* State machine *)

\* A second engine, built from the same settings except that its compress
\* flag is the opposite one; it has the same displays attached and detached
\* and is woken at the same instants.  Its fields after the constructor:
NewTwin ==
    [rotation |-> 0, rotationData |-> <<>>, timeout |-> NoTimeout,
     queryChanged |-> FALSE, hung |-> FALSE]

\* The second engine's fields after an execution of its updateRotation()
\* that returned r, its queryChanged flag having been qChanged at the call
TwinAfterUpdate(r, qChanged) ==
    IF r.hung
    THEN [twin EXCEPT !.rotation = r.rotation, !.queryChanged = qChanged,
                      !.hung = TRUE]
    ELSE [rotation |-> r.rotation, rotationData |-> r.rotationData,
          timeout |-> [armed |-> TRUE, at |-> now + r.waitTime],
          queryChanged |-> (IF r.rebuilt THEN FALSE ELSE qChanged),
          hung |-> FALSE]

\* The second engine after one execution of its updateRotation() with the
\* registry fields dep, q, qDepth and its own queryChanged flag qChanged
TwinUpdateRotation(dep, q, qDepth, qChanged) ==
    IF twin.hung THEN twin
    ELSE TwinAfterUpdate(UpdateRotation(~compress, now, twin.rotation,
                                        twin.rotationData, dep, q, qDepth,
                                        qChanged),
                         qChanged)

\* createInstance + constructor
Init ==
    /\ \/ \E s \in TimerSettings :
             /\ list = s.list
             /\ compress = s.compress
             /\ epoch = s.epoch
             /\ erinnTimes = s.erinnTimes
             /\ serverTimes = s.serverTimes
             /\ changeEveryDuration = s.changeEveryDuration
             /\ rotationType = s.rotationType
             /\ dst = s.dst
             /\ page = s.page
             /\ call = NoCall
       \/ \E c \in ItemChangeAtCases :
             LET validatedParameters == validateParameters(NoArgs, c[1])
             IN /\ dst = "fall"
                /\ page = c[2]
                /\ list = validatedParameters.listValues
                /\ compress = validatedParameters.compress
                /\ epoch = DateObject(validatedParameters.epoch)
                /\ erinnTimes = validatedParameters.erinnTimes
                /\ serverTimes = validatedParameters.serverTimes
                /\ changeEveryDuration =
                       validatedParameters.changeEveryDuration
                /\ rotationType = validatedParameters.rotationType
                /\ call = [state |-> "returned", args |-> NoArgs,
                           list |-> c[1], result |-> validatedParameters]
    /\ now = WindowStart
    /\ rotation = 0
    /\ rotationData = <<>>
    /\ timeout = NoTimeout
    /\ timerDisplays = <<>>
    /\ depth = DefaultDepth
    /\ query = <<>>
    /\ queryDepth = <<>>
    /\ queryChanged = FALSE
    /\ wakes = EmptyBag
    /\ received = NothingReceived
    /\ shared = {}
    /\ notified = {}
    /\ lastOp = "init"
    /\ rebuilt = FALSE
    /\ hung = FALSE
    /\ _allowConstructor = FALSE
    /\ twin = NewTwin

\* Mutant: a recomputation does not cancel the outstanding wake
CancelWake_Skipped(w, t) == w

\* The host's timer table after clearTimeout(t): the pending callback that
\* handle t refers to is removed; a handle that is not live removes nothing
CancelWake(w, t) == IF t.armed /\ BagIn(t.at, w) THEN w (-) SetToBag({t.at}) ELSE w

\* Mutant: setTimeout registers nothing
ScheduleWake_Never(w, at) == w

\* The host's timer table after setTimeout(this.updateRotation, at - now)
ScheduleWake(w, at) == w (+) SetToBag({at})

\* The engine's fields after an execution of this.updateRotation() that
\* returned r
StoreUpdateRotation(r, displays, dep, q, qDepth, qChanged, w, handle) ==
    /\ timerDisplays' = displays
    /\ depth' = dep
    /\ query' = q
    /\ queryDepth' = qDepth
    /\ rotation' = r.rotation
    /\ hung' = r.hung
    /\ shared' = {}
    /\ rebuilt' = (r.rebuilt /\ ~r.hung)
    /\ IF r.hung
       THEN /\ rotationData' = rotationData
            /\ queryChanged' = qChanged
            /\ timeout' = timeout
            /\ wakes' = w
            /\ received' = NothingReceived
            /\ notified' = {}
       ELSE /\ rotationData' = r.rotationData
            /\ queryChanged' = (IF r.rebuilt THEN FALSE ELSE qChanged)
            /\ timeout' = [armed |-> TRUE, at |-> now + r.waitTime]
            /\ wakes' = ScheduleWake(CancelWake(w, handle), now + r.waitTime)
            /\ received' = (IF r.rebuilt
                            THEN updateAllDisplays(displays, r.rotationData)
                            ELSE NothingReceived)
            /\ notified' = (IF r.rebuilt THEN SeqToSet(displays) ELSE {})

\* One execution of this.updateRotation() with the registry fields already
\* set to displays, dep, q, qDepth, qChanged by the caller; w is the host's
\* timer table and handle the value of this.timeout when the call starts
RunUpdateRotation(displays, dep, q, qDepth, qChanged, w, handle) ==
    StoreUpdateRotation(UpdateRotation(compress, now, rotation, rotationData,
                                       dep, q, qDepth, qChanged),
                        displays, dep, q, qDepth, qChanged, w, handle)

\* Mutant: the pending timeout is not cancelled
clearTimeout_Forgotten(t) == t

\* clearTimeout(this.timeout)
clearTimeout(t) == NoTimeout

\* Mutant: a larger depth alone does not start a recomputation
AttachNeedsUpdate_IgnoresDepth(displays, d) ==
    Len(displays) = 1 \/ HasQuery(d)

\* attachDisplay's test, taken after d was added to the Map: "If this is the
\* first TimerDisplay added to the Map, begin the rotations. Also update
\* rotation if the depth has changed or this display uses a query."
AttachNeedsUpdate(displays, d) ==
    Len(displays) = 1 \/ depth < DisplayDepth(d) \/ HasQuery(d)

\* attachDisplay(d) for a display that is not attached
AttachDisplay(d) ==
    /\ ~hung
    /\ IsTimerDisplay(d)
    /\ ~IsAttached(timerDisplays, d)
    /\ LET displays == Append(timerDisplays, d)
           q == IF HasQuery(d) THEN Append(query, DisplayQuery(d)) ELSE query
           qDepth == IF HasQuery(d) THEN Append(queryDepth, DisplayDepth(d))
                     ELSE queryDepth
           qChanged == IF HasQuery(d) THEN TRUE ELSE queryChanged
       IN IF AttachNeedsUpdate(displays, d)
          THEN /\ RunUpdateRotation(displays,
                      IF depth < DisplayDepth(d) THEN DisplayDepth(d)
                      ELSE depth,
                      q, qDepth, qChanged, wakes, timeout)
               /\ twin' = TwinUpdateRotation(
                               IF depth < DisplayDepth(d) THEN DisplayDepth(d)
                               ELSE depth,
                               q, qDepth,
                               IF HasQuery(d) THEN TRUE ELSE twin.queryChanged)
               /\ lastOp' = "update"
          ELSE /\ timerDisplays' = displays
               /\ twin' = (IF twin.hung THEN twin
                           ELSE [twin EXCEPT !.rotationData = updateData(d, @)])
               /\ received' = [NothingReceived EXCEPT ![d] = rotationData]
               /\ shared' = {d}
               /\ rotationData' = updateData(d, rotationData)
               /\ notified' = {d}
               /\ lastOp' = "push"
               /\ rebuilt' = FALSE
               /\ UNCHANGED <<rotation, timeout, depth, query, queryDepth,
                              queryChanged, wakes, hung>>
    /\ UNCHANGED <<settings, now>>

\* attachDisplay(d) for an object that is not a TimerDisplay or for a
\* display that is already attached: rejected
AttachRejected(d) ==
    /\ ~hung
    /\ ~IsTimerDisplay(d) \/ IsAttached(timerDisplays, d)
    /\ lastOp' = "rejected"
    /\ notified' = {}
    /\ rebuilt' = FALSE
    /\ received' = NothingReceived
    /\ shared' = {}
    /\ UNCHANGED <<settings, now, engine, wakes, hung, twin>>

\* detachDisplay(d) for an attached display
DetachDisplay(d) ==
    /\ ~hung
    /\ IsAttached(timerDisplays, d)
    /\ LET displays == RemoveDisplay(timerDisplays, d)
       IN /\ timerDisplays' = displays
          /\ IF Len(displays) = 0
             THEN /\ timeout' = clearTimeout(timeout)
                  /\ wakes' = CancelWake(wakes, timeout)
                  /\ depth' = DefaultDepth
                  /\ query' = <<>>
                  /\ queryDepth' = <<>>
                  /\ queryChanged' = TRUE
             ELSE /\ timeout' = timeout
                  /\ wakes' = wakes
                  /\ depth' = (IF DisplayDepth(d) = depth
                               THEN recalculateDepth(displays) ELSE depth)
                  /\ IF HasQuery(d)
                     THEN /\ query' = recalculateQuery(displays).query
                          /\ queryDepth' = recalculateQuery(displays).queryDepth
                          /\ queryChanged' = TRUE
                     ELSE UNCHANGED <<query, queryDepth, queryChanged>>
    /\ twin' = (IF twin.hung THEN twin
                ELSE IF Len(RemoveDisplay(timerDisplays, d)) = 0
                THEN [twin EXCEPT !.timeout = clearTimeout(@),
                                  !.queryChanged = TRUE]
                ELSE IF HasQuery(d) THEN [twin EXCEPT !.queryChanged = TRUE]
                ELSE twin)
    /\ lastOp' = "detach"
    /\ notified' = {}
    /\ rebuilt' = FALSE
    /\ received' = NothingReceived
    /\ shared' = {}
    /\ UNCHANGED <<settings, now, rotation, rotationData, hung>>

\* detachDisplay(d) for a display that is not attached: rejected
DetachRejected(d) ==
    /\ ~hung
    /\ ~IsAttached(timerDisplays, d)
    /\ lastOp' = "rejected"
    /\ notified' = {}
    /\ rebuilt' = FALSE
    /\ received' = NothingReceived
    /\ shared' = {}
    /\ UNCHANGED <<settings, now, engine, wakes, hung, twin>>

\* A pending wake fires: the host removes it from its timer table and calls
\* this.updateRotation; this.timeout still holds the fired timer's handle,
\* which is no longer live.  The host's timers are
\* advisory: the callback may run late, or before Date.now() has reached the
\* instant it was set for.  lastOp = "reupdate" records that updateRotation
\* ran twice in immediate succession, with no step of any kind in between.
Wake ==
    /\ ~hung
    /\ \E at \in BagToSet(wakes) :
          RunUpdateRotation(timerDisplays, depth, query, queryDepth,
                            queryChanged, wakes (-) SetToBag({at}),
                            IF timeout.at = at THEN NoTimeout ELSE timeout)
    /\ twin' = TwinUpdateRotation(depth, query, queryDepth, twin.queryChanged)
    /\ lastOp' = (IF lastOp \in {"update", "reupdate"} THEN "reupdate"
                  ELSE "update")
    /\ UNCHANGED <<settings, now>>

\* Real time passes
Tick(k) ==
    /\ now + k * GridStep <= MaxNow
    /\ now' = now + k * GridStep
    /\ lastOp' = "tick"
    /\ notified' = {}
    /\ rebuilt' = FALSE
    /\ received' = NothingReceived
    /\ shared' = {}
    /\ UNCHANGED <<settings, engine, wakes, hung, twin>>

Next ==
    \/ \E d \in page : AttachDisplay(d)
    \/ \E d \in page \cup {NotADisplay} : AttachRejected(d)
    \/ \E d \in page : DetachDisplay(d)
    \/ \E d \in page : DetachRejected(d)
    \/ Wake
    \/ \E k \in TickSteps : Tick(k)

Spec == Init /\ [][Next]_vars

----------------------------------------------------------------------------
(* createInstance on raw settings *)

InitCreate ==
    /\ call \in {[state |-> "pending", args |-> a, list |-> l,
                  result |-> Null] : a \in ArgsInputs, l \in ListInputs}
    /\ _allowConstructor = FALSE
    /\ list = <<>>
    /\ compress = FALSE
    /\ epoch = 0
    /\ erinnTimes = <<>>
    /\ serverTimes = <<>>
    /\ changeEveryDuration = 0
    /\ rotationType = "none"
    /\ dst = "fall"
    /\ page = {}
    /\ now = WindowStart
    /\ rotation = 0
    /\ rotationData = <<>>
    /\ timeout = NoTimeout
    /\ timerDisplays = <<>>
    /\ depth = DefaultDepth
    /\ query = <<>>
    /\ queryDepth = <<>>
    /\ queryChanged = FALSE
    /\ wakes = EmptyBag
    /\ received = NothingReceived
    /\ shared = {}
    /\ notified = {}
    /\ lastOp = "init"
    /\ rebuilt = FALSE
    /\ hung = FALSE
    /\ twin = NewTwin

\* RotateTimer.createInstance(args, list): null when the validation fails,
\* otherwise the constructor runs with _allowConstructor raised and lowers
\* it again
CreateInstance ==
    /\ call.state = "pending"
    /\ LET validatedParameters == validateParameters(call.args, call.list)
       IN /\ call' = [call EXCEPT !.state = "returned",
                                  !.result = validatedParameters]
          /\ _allowConstructor' = FALSE
    /\ UNCHANGED <<list, compress, epoch, erinnTimes, serverTimes,
                   changeEveryDuration, rotationType, dst, page, now,
                   engine, wakes, received, shared, notified, lastOp,
                   rebuilt, hung, twin>>

NextCreate == CreateInstance

SpecCreate == InitCreate /\ [][NextCreate]_vars

----------------------------------------------------------------------------
(* Properties *)

\* The last step ran updateRotation to its end
AfterRecomputation == lastOp \in {"update", "reupdate"} /\ ~hung

Attached == SeqToSet(timerDisplays)

\* The value of the item that is active according to the rotation counter
ActiveValue(rot) == ListAt(JsRem(rot, Len(list)))

\* C1 (as stated): after every recomputation the index stored in entry 0 of
\* rotationData equals rotation mod list.length (the source's %), for both
\* rules and with compress on or off.
C1_IndexIsRotationModLength ==
    AfterRecomputation => rotationData[1][1] = JsRem(rotation, Len(list))

\* C1 (amended): after every recomputation the list value at the index
\* stored in entry 0 equals the list value at rotation mod list.length, and
\* with compress off the index itself equals rotation mod list.length.
C1_ActiveValueIsCurrent ==
    AfterRecomputation =>
        /\ ListAt(rotationData[1][1]) = ActiveValue(rotation)
        /\ (~compress => rotationData[1][1] = JsRem(rotation, Len(list)))

\* A recomputation with compress on kept an entry 0 whose index is not the
\* current rotation's index
C1_Witness ==
    /\ AfterRecomputation /\ rebuilt /\ compress /\ rotation >= 0
    /\ rotationData[1][1] # JsRem(rotation, Len(list))

\* C2: across recomputations at non-decreasing now the rotation counter
\* never decreases (once a first recomputation has set it).
C2_RotationNeverDecreases ==
    [][rotationData # <<>> => rotation' >= rotation]_vars

StrictlyIncreasing(data) ==
    \A k \in 1..(Len(data) - 1) : data[k][2] < data[k + 1][2]

\* C3: after every recomputation that rebuilds the schedule, entry 0 is the
\* active entry (entry0.start <= now < entry1.start) and the start instants
\* increase strictly along the schedule.
C3_EntryZeroActive ==
    (AfterRecomputation /\ rebuilt) =>
        /\ rotationData[1][2] <= now
        /\ now < rotationData[2][2]
        /\ StrictlyIncreasing(rotationData)

\* Number of schedule entries whose item value is in the query of display d
MatchingEntries(d) ==
    Cardinality({k \in 1..Len(rotationData) :
                    ListAt(rotationData[k][1]) \in DisplayQuery(d)})

\* C4: after every recomputation the schedule has at least depth entries
\* for every attached display's depth, and for every attached display with
\* a query at least that display's depth entries whose value is in the query.
C4_DepthSatisfied ==
    AfterRecomputation =>
        \A d \in Attached :
            /\ Len(rotationData) >= DisplayDepth(d)
            /\ (HasQuery(d) => MatchingEntries(d) >= DisplayDepth(d))

\* Two queries are outstanding and they made the schedule longer than depth
C4_Witness ==
    /\ AfterRecomputation /\ rebuilt
    /\ Len(query) = 2
    /\ Len(rotationData) > depth

\* C5: with compress on, no two consecutive entries of the schedule refer to
\* list items with equal values.
C5_CompressNoEqualNeighbours ==
    compress =>
        \A k \in 1..(Len(rotationData) - 1) :
            ListAt(rotationData[k][1]) # ListAt(rotationData[k + 1][1])

\* A rebuilt compressed schedule whose entry 0 was carried over and whose
\* entries wrap around the end of the list
C5_Witness ==
    /\ AfterRecomputation /\ rebuilt /\ compress
    /\ rotationType = "changeAt"
    /\ rotationData[1][2] # FirstStartTime(now)
    /\ \E k \in 1..(Len(rotationData) - 1) :
           rotationData[k][1] = Len(list) - 1 /\ rotationData[k + 1][1] = 0

\* C6: with compress on, if the active item's value is the same at two
\* consecutive recomputations, the start instant of entry 0 is the same after
\* the second as after the first, whether or not the second rebuilt.
C6_CountdownNotReset ==
    [][(/\ compress
        /\ rotationData # <<>>
        /\ lastOp' \in {"update", "reupdate"} /\ ~hung'
        /\ ActiveValue(rotation') = ActiveValue(rotation))
       => rotationData'[1][2] = rotationData[1][2]]_vars

\* A rebuild under compress kept entry 0's earlier start instant
C6_Witness ==
    /\ AfterRecomputation /\ rebuilt /\ compress
    /\ rotationType = "changeEvery"
    /\ rotationData[1][2] # epoch + rotation * changeEveryDuration

\* C7: a second call of updateRotation in immediate succession, at the same
\* now and with no attach or detach in between, leaves rotation, schedule
\* and aggregate demand as the first call left them.
C7_IdempotentReentry ==
    [][(lastOp' = "reupdate" /\ ~hung')
       => /\ rotation' = rotation
          /\ rotationData' = rotationData
          /\ depth' = depth
          /\ query' = query
          /\ queryDepth' = queryDepth]_vars

\* updateRotation has just run twice in immediate succession
C7_Witness == lastOp = "reupdate" /\ ~hung /\ Len(rotationData) >= depth

\* The largest depth among a set of displays, 2 at least
RECURSIVE MaxDepthOf(_)
MaxDepthOf(S) ==
    IF S = {} THEN 2
    ELSE LET d == CHOOSE x \in S : TRUE
         IN Max(DisplayDepth(d), MaxDepthOf(S \ {d}))

\* C8: the aggregate depth equals max(2, largest depth among the attached
\* displays) after any sequence of accepted and rejected attach and detach.
C8_AggregateDepth == depth = MaxDepthOf(Attached)

\* The depth-3 display has been detached and only the depth-1 display is left
C8_Witness ==
    /\ lastOp = "detach"
    /\ timerDisplays = <<"d1">>
    /\ Len(rotationData) >= 3
    /\ depth = 2

\* C9: query holds exactly one query set per attached display that has a
\* query, queryDepth has the same length, and queryDepth[k] is the depth of
\* the display that contributed query[k].
C9_QueryPerSubscriber ==
    LET withQuery == SelectSeq(timerDisplays, LAMBDA d : DisplayQuery(d) # {})
    IN /\ Len(query) = Len(withQuery)
       /\ Len(queryDepth) = Len(query)
       /\ \A k \in 1..Len(withQuery) :
              /\ query[k] = DisplayQuery(withQuery[k])
              /\ queryDepth[k] = DisplayDepth(withQuery[k])

\* A display with a query was detached while another one stays attached
C9_Witness ==
    /\ lastOp = "detach"
    /\ Len(timerDisplays) = 2
    /\ Len(query) = 1
    /\ queryChanged

C11_SingleWake ==
    /\ BagCardinality(wakes) <= 1
    /\ (wakes # EmptyBag => timeout.armed /\ BagIn(timeout.at, wakes))

\* An attach recomputed while a wake was pending, and one wake is pending
C11_Witness ==
    /\ lastOp = "update" /\ ~hung
    /\ Len(timerDisplays) >= 2
    /\ BagCardinality(wakes) = 1

\* C12: no subscriber is ever handed the engine's own schedule array: on
\* every path (notification after a recomputation, push at attach) what it
\* receives is a copy.
C12_SubscribersReceiveCopies == shared = {}

\* C13 (as stated): every recomputation, whether or not the rotation, depth
\* or query changed, hands the entire current schedule to every attached
\* display.
C13_EveryRecomputationNotifies ==
    AfterRecomputation =>
        /\ notified = Attached
        /\ \A d \in Attached : received[d] = rotationData

\* C13 (amended): a recomputation that rebuilds the schedule hands the
\* entire new schedule to every attached display, and a recomputation that
\* does not rebuild hands nothing to anybody.
C13_RebuildNotifiesAll ==
    AfterRecomputation =>
        IF rebuilt
        THEN /\ notified = Attached
             /\ \A d \in Attached : received[d] = rotationData
        ELSE /\ notified = {}
             /\ received = NothingReceived

\* A rebuild notified three displays with a schedule longer than the
\* smallest depth among them
C13_Witness ==
    /\ AfterRecomputation /\ rebuilt
    /\ Len(timerDisplays) = 3
    /\ notified = Attached
    /\ Len(received["d1"]) > DisplayDepth("d1")

\* C14: an accepted attachDisplay(d) recomputes exactly when d becomes the
\* only attached display, or d's depth exceeds the aggregate depth, or d has
\* a query; otherwise rotation, schedule, depth, queries and the pending
\* wake are unchanged and the existing schedule is handed to d alone.
C14_AttachRecomputesOrPushes ==
    [][\A d \in Displays :
          timerDisplays' = Append(timerDisplays, d) =>
              IF timerDisplays = <<>> \/ DisplayDepth(d) > depth
                 \/ DisplayQuery(d) # {}
              THEN /\ lastOp' = "update"
                   /\ hung' \/ (timeout'.armed /\ BagIn(timeout'.at, wakes'))
              ELSE /\ lastOp' = "push"
                   /\ UNCHANGED <<rotation, rotationData, depth, query,
                                  queryDepth, queryChanged, timeout, wakes>>
                   /\ notified' = {d}
                   /\ received' = [NothingReceived EXCEPT ![d] = rotationData]
      ]_vars

\* A display whose depth alone exceeds the aggregate depth has attached
\* second and a recomputation has lengthened the schedule
C14_Witness ==
    /\ lastOp = "update" /\ rebuilt
    /\ Len(timerDisplays) = 2
    /\ timerDisplays[2] = "d4"
    /\ Len(rotationData) = 3

\* C15: attachDisplay of an attached display or of an object that is not a
\* TimerDisplay, and detachDisplay of a display that is not attached, leave
\* the registry, depth, queries, queryChanged, rotation, schedule and the
\* pending wake unchanged and notify nobody.
C15_RejectedIsNoOp ==
    [][\A d \in Displays \cup {NotADisplay} :
          (\/ /\ d \notin Displays \/ d \in Attached
              /\ AttachDisplay(d) \/ AttachRejected(d)
           \/ /\ d \notin Attached
              /\ DetachDisplay(d) \/ DetachRejected(d))
          => /\ UNCHANGED <<engine, wakes>>
             /\ notified' = {}
             /\ received' = NothingReceived
      ]_vars

\* A call was rejected while displays with queries were attached and a wake
\* was pending
C15_Witness ==
    /\ lastOp = "rejected"
    /\ Len(query) = 2
    /\ BagCardinality(wakes) = 1

----------------------------------------------------------------------------
(* Properties of createInstance, checked under SpecCreate *)

Returned == call.state = "returned"

\* Some list item of the call carries its own changeAt
SomeItemChangeAt ==
    \E k \in 1..Len(call.list) : call.list[k].changeAt # <<>>

\* C16: createInstance returns null, and no instance is created, when the
\* settings hold both a changeAt and a changeEvery, or neither of them and
\* no list item has its own changeAt, or more than one changeEvery value.
C16_ExactlyOneRule ==
    Returned
    /\ (\/ InArgs(call.args, "changeAt") /\ InArgs(call.args, "changeEvery")
        \/ /\ ~InArgs(call.args, "changeAt")
           /\ ~InArgs(call.args, "changeEvery")
           /\ ~SomeItemChangeAt
        \/ Len(call.args.changeEvery) > 1)
    => call.result = Null /\ ~_allowConstructor

\* Both rules are given and nothing else is wrong with the settings
C16_Witness ==
    /\ Returned
    /\ call.args = [epoch |-> <<Epoch20241101>>,
                    changeAt |-> <<SunshiftString>>,
                    changeEvery |-> <<D0100S>>, compress |-> <<>>]
    /\ call.list = PlainList
    /\ call.result = Null

\* Epoch settings that hold one string which is no valid server date-time
InvalidEpochs ==
    {<<EpochMonth13>>, <<EpochApril31>>, <<EpochFeb29of2023>>,
     <<EpochFeb29of1900>>, <<Junk>>}

NothingCreated ==
    call.result = Null /\ wakes = EmptyBag /\ ~_allowConstructor

PartialItemChangeAt ==
    /\ SomeItemChangeAt
    /\ \E k \in 1..Len(call.list) : call.list[k].changeAt = <<>>

----------------------------------------------------------------------------
(* Properties of the engine, continued *)

\* The engine was built from list items that carry their own changeAt
FromItemChangeAt == call.state = "returned"

\* Position in the sorted list of the latest item time at or before the
\* time of day of now, the last position before the day's first time
LatestItemAtOrBefore(times, timeOfDay) ==
    LET n == Cardinality({k \in 1..Len(times) : times[k] <= timeOfDay})
    IN IF n = 0 THEN Len(times) - 1 ELSE n - 1

\* C19: with changeAt on the list items, after every recomputation the
\* active index is the position of the latest item time at or before the
\* time of day of now in the items' calendar.
C19_ItemActiveFromItsTime ==
    FromItemChangeAt /\ AfterRecomputation
    => JsRem(rotation, Len(list))
       = IF erinnTimes # <<>>
         THEN LatestItemAtOrBefore(erinnTimes, MillisecondsInErinnDay(now))
         ELSE LatestItemAtOrBefore(serverTimes,
                  dateToMillisecondsAfterServerMidnight(now))

\* C20: in every reachable state the rotation counter is at least 0 and
\* every item index stored in the schedule is in 0..list.length-1.
C20_RotationAndIndicesInRange ==
    /\ rotation >= 0
    /\ \A k \in 1..Len(rotationData) :
          rotationData[k][1] \in 0..(Len(list) - 1)

\* C21: for a changeEvery rule, after every recomputation the wake lands on
\* the next rotation boundary: 1 <= waitMs <= interval, now + waitMs =
\* epoch + (rotation + 1) * interval, rotation = floor((now - epoch) /
\* interval).
C21_WakeOnNextBoundary ==
    rotationType = "changeEvery" /\ AfterRecomputation
    => /\ timeout.armed
       /\ timeout.at - now >= 1
       /\ timeout.at - now <= changeEveryDuration
       /\ timeout.at = epoch + (rotation + 1) * changeEveryDuration
       /\ rotation = (now - epoch) \div changeEveryDuration

\* Number of instants t with a < t <= b at which a clock showing
\* (t + offset) % dayLength shows timeOfDay
OccurrencesIn(a, b, timeOfDay, offset, dayLength) ==
    IF b <= a THEN 0
    ELSE (b + offset - timeOfDay) \div dayLength
         - (a + offset - timeOfDay) \div dayLength

RECURSIVE OccurrencesOfAll(_, _, _, _, _)
OccurrencesOfAll(times, a, b, offset, dayLength) ==
    IF times = <<>> THEN 0
    ELSE OccurrencesIn(a, b, Head(times), offset, dayLength)
         + OccurrencesOfAll(Tail(times), a, b, offset, dayLength)

\* Occurrences of the Erinn times in (a, b]
ErinnOccurrences(a, b) ==
    OccurrencesOfAll(erinnTimes, a, b, ERINN_TIME_OFFSET, TIME_PER_ERINN_DAY)

\* Occurrences of the Server times in (a, b] on the server's wall clock,
\* counted separately before and from the instant the clock changes
ServerOccurrences(a, b) ==
    OccurrencesOfAll(serverTimes, a, Min(b, DstInstant - 1),
                     SERVER_TIMEZONE(DstInstant - 1), TIME_PER_SERVER_DAY)
    + OccurrencesOfAll(serverTimes, Max(a, DstInstant - 1), b,
                       SERVER_TIMEZONE(DstInstant), TIME_PER_SERVER_DAY)

\* C22: for a changeAt rule and epoch <= now, the rotation after a
\* recomputation is the number of trigger occurrences of both calendars,
\* a time listed twice counted twice, with instants in (epoch, now].
C22_RotationCountsOccurrences ==
    rotationType = "changeAt" /\ AfterRecomputation /\ epoch <= now
    => rotation = ErinnOccurrences(epoch, now) + ServerOccurrences(epoch, now)

\* Occurrences of the triggers of both calendars in (a, b]
TriggerOccurrences(a, b) == ErinnOccurrences(a, b) + ServerOccurrences(a, b)

\* C23: for a changeAt rule, after every recomputation waitMs >= 1 and
\* now + waitMs is the earliest instant after now at which a trigger of
\* either calendar occurs.
C23_WakeOnEarliestTrigger ==
    rotationType = "changeAt" /\ AfterRecomputation
    => /\ timeout.armed
       /\ timeout.at - now >= 1
       /\ TriggerOccurrences(now, timeout.at) >= 1
       /\ TriggerOccurrences(now, timeout.at - 1) = 0

\* The settings of the call with changeAt replaced
WithChangeAt(changeAt) == [call.args EXCEPT !.changeAt = changeAt]

\* C25: createInstance with changeAt = [sunshift], in any spelling of upper
\* and lower case, returns what it returns with changeAt = [06:00E, 18:00E]
\* and the same other settings; when it succeeds erinnTimes is ascending
\* (06:00E, 18:00E in milliseconds) and serverTimes is empty.
C25_SunshiftIsAlias ==
    Returned /\ call.args.changeAt \in {<<SunshiftString>>, <<SunShiftString>>}
    => /\ call.result
          = validateParameters(WithChangeAt(<<T0600E, T1800E>>), call.list)
       /\ call.result # Null
          => /\ call.result.erinnTimes
                = <<6 * TIME_PER_ERINN_HOUR, 18 * TIME_PER_ERINN_HOUR>>
             /\ call.result.serverTimes = <<>>

\* Sunshift spelled with capitals was accepted
C25_Witness ==
    /\ Returned
    /\ call.args.changeAt = <<SunShiftString>>
    /\ call.args.epoch = <<Epoch20241101>>
    /\ call.list = PlainList
    /\ call.result # Null
    /\ call.result.rotationType = "changeAt"

\* A natural number as hi * Limb + lo with lo < Limb
AsLong(n) == [hi |-> n \div Limb, lo |-> n % Limb]

RECURSIVE WeightedSum(_, _, _)
WeightedSum(weights, numbers, k) ==
    IF k = 0 THEN 0
    ELSE weights[k] * numbers[k] + WeightedSum(weights, numbers, k - 1)

\* hours*3600000 + minutes*60000 + seconds*1000 + milliseconds of a Real
\* duration string, missing trailing numbers being 0
ExactMilliseconds(str) ==
    LET weights == <<Hour, Minute, 1000, 1>>
        high == WeightedSum(weights, [k \in 1..Len(str.f) |-> High(str, k)], Len(str.f))
        low == WeightedSum(weights, str.f, Len(str.f))
    IN [hi |-> high + low \div Limb, lo |-> low % Limb]

\* The call is valid apart, perhaps, from its changeEvery
ValidButForChangeEvery ==
    validateParameters([call.args EXCEPT !.changeEvery = <<D0100S>>], call.list) # Null

\* C26: for a valid Real duration string with numbers of any magnitude the
\* converted duration is hours*3600000 + minutes*60000 + seconds*1000 +
\* milliseconds; a changeEvery of at least 1 ms is accepted with that
\* duration and one of 0 ms is rejected.
C26_RealDurationExact ==
    /\ Returned
    /\ Len(call.args.changeEvery) = 1
    /\ validateDurationTimeStrings(call.args.changeEvery)
    /\ call.args.changeEvery[1].cal = "S"
    /\ ValidButForChangeEvery
    => LET str == call.args.changeEvery[1]
           ms == convertTimeStringToRealMilliseconds(str, FALSE)
       IN /\ ms >= 0
          /\ AsLong(ms) = ExactMilliseconds(str)
          /\ IF ExactMilliseconds(str) = AsLong(0) THEN call.result = Null
             ELSE /\ call.result # Null
                  /\ call.result.changeEveryDuration = ms

\* The value of the item of rotation r
ValueOfRotation(r) == ListAt(JsRem(r, Len(list)))

\* The list holds at least two different values
ListHasTwoValues == \E j, k \in 1..Len(list) : list[j] # list[k]

\* Activation instant of the slot of rotation r, as the uncompressed
\* schedule of the engine gives it at this instant
RECURSIVE SlotStart(_)
SlotStart(r) ==
    IF rotationType = "changeEvery" THEN epoch + r * changeEveryDuration
    ELSE IF r = rotation THEN FirstStartTime(now)
    ELSE IF r > rotation THEN NextStartTime(SlotStart(r - 1))
    ELSE FirstStartTime(SlotStart(r + 1) - 1)

\* First rotation of the maximal run of equal values that holds rotation r
RECURSIVE RunFirst(_)
RunFirst(r) ==
    IF ValueOfRotation(r - 1) = ValueOfRotation(r) THEN RunFirst(r - 1) ELSE r

\* First rotation of the run that follows the run of rotation r
RECURSIVE NextRunFirst(_, _)
NextRunFirst(r, value) ==
    IF ValueOfRotation(r) # value THEN r ELSE NextRunFirst(r + 1, value)

\* First rotation of the run of schedule entry k, entry 1 being the active run
RECURSIVE RunOfEntry(_)
RunOfEntry(k) ==
    IF k = 1 THEN RunFirst(rotation)
    ELSE LET previous == RunOfEntry(k - 1)
         IN NextRunFirst(previous, ValueOfRotation(previous))

CompressedRebuild ==
    compress /\ rebuilt /\ AfterRecomputation /\ ListHasTwoValues /\ rotation >= 0

\* C27: with compress, entry k of a rebuilt schedule stands for the k-th
\* maximal run of equal values from the active run on, and its activation
\* instant is that of the first rotation slot of the run; this includes
\* entry 0 when the schedule is first computed in the middle of a run.
C27_OneEntryPerRun ==
    CompressedRebuild
    => \A k \in 1..Len(rotationData) :
          /\ ListAt(rotationData[k][1]) = ValueOfRotation(RunOfEntry(k))
          /\ rotationData[k][2] = SlotStart(RunOfEntry(k))

\* A recomputation rebuilds the compressed schedule, a schedule existed
\* before, and the rotation of the previous recomputation does not belong to
\* the run that is active now
RebuildInLaterRun ==
    /\ compress /\ ListHasTwoValues /\ rotation >= 0
    /\ rotationData # <<>>
    /\ lastOp' \in {"update", "reupdate"} /\ ~hung' /\ rebuilt'
    /\ rotation < RunFirst(rotation')

\* C28: with compress, when an item of another value was active between the
\* previous recomputation and this one, entry 0 of the rebuilt schedule is
\* derived from the current rotation: its instant is the start of the
\* current rotation's slot, not the instant of the earlier run.
C28_NoStaleCarryOver ==
    [][RebuildInLaterRun
       => /\ rotationData'[1][1] = JsRem(rotation', Len(list))
          /\ rotationData'[1][2]
             = IF rotationType = "changeEvery"
               THEN epoch + rotation' * changeEveryDuration
               ELSE FirstStartTime(now)]_vars

\* Number of entries among the first n of the schedule whose value is in
\* the query set q
MatchesInPrefix(n, q) ==
    Cardinality({k \in 1..n : ListAt(rotationData[k][1]) \in q})

\* C29: a rebuilt schedule is minimal for the aggregate demand: without
\* queries it has exactly depth entries, and without its last entry it
\* would be shorter than depth or some query would have fewer matching
\* entries than its required count.
C29_ScheduleMinimal ==
    rebuilt /\ AfterRecomputation
    => /\ Len(rotationData) >= 1
       /\ query = <<>> => Len(rotationData) = depth
       /\ \/ Len(rotationData) - 1 < depth
          \/ \E k \in 1..Len(query) :
                MatchesInPrefix(Len(rotationData) - 1, query[k]) < queryDepth[k]

\* A query made the compressed schedule longer than depth, and its last
\* entry is the one that completes the query
C29_Witness ==
    /\ rebuilt /\ AfterRecomputation /\ compress
    /\ Len(rotationData) > depth
    /\ \E k \in 1..Len(query) :
          /\ MatchesInPrefix(Len(rotationData), query[k]) = queryDepth[k]
          /\ MatchesInPrefix(Len(rotationData) - 1, query[k]) < queryDepth[k]

\* C30: every recomputation terminates: whatever the validated list, the
\* compress flag and the attached displays' depths and queries, the loop
\* that builds the schedule ends and the next wake is scheduled.
C30_RecomputationTerminates ==
    lastOp \in {"update", "reupdate"}
    => /\ ~hung
       /\ timeout.armed
       /\ BagIn(timeout.at, wakes)

\* C24: two engines with the same epoch, rule and list that differ only in
\* the compress flag and see the same attach, detach and wake events at the
\* same instants hold the same rotation counter and have their wake
\* scheduled for the same instant after every recomputation.
C24_CompressKeepsRotationAndWake ==
    lastOp \in {"update", "reupdate"}
    => /\ twin.rotation = rotation
       /\ twin.hung = hung
       /\ ~hung => twin.timeout = timeout

----------------------------------------------------------------------------
(* Properties of the wake loop, the deliveries and the displays *)

\* C31: whenever a display is attached and no recomputation is running, a
\* wake is pending in the host's timer table and this.timeout refers to it.
C31_WakePendingWhileAttached ==
    timerDisplays # <<>> /\ ~hung
    => /\ timeout.armed
       /\ BagIn(timeout.at, wakes)

\* After time has passed a single display is attached, a recomputation has
\* just run and its wake is pending
C31_Witness ==
    /\ lastOp = "update" /\ ~hung
    /\ Len(timerDisplays) = 1
    /\ rotationData # <<>>
    /\ now > WindowStart
    /\ received[timerDisplays[1]] # <<>>
    /\ timeout.armed /\ timeout.at > now
    /\ twin.rotationData # <<>>

\* The steps of Wake that the host owes the engine: a wake is pending and
\* something has happened since the last recomputation. Among the steps of
\* Next only Wake recomputes and leaves the registry as it is.
WakeFires ==
    /\ ~hung
    /\ wakes # EmptyBag
    /\ lastOp \notin {"update", "reupdate"}
    /\ lastOp' = "update"
    /\ timerDisplays' = timerDisplays

\* Real time passes and the wake timer is fair: a pending wake eventually
\* fires
SpecLive ==
    /\ Init /\ [][Next]_vars
    /\ WF_vars(\E k \in TickSteps : Tick(k))
    /\ WF_<<lastOp, timerDisplays>>(WakeFires)

\* The rotation a recomputation at this instant computes
RotationNow ==
    IF rotationType = "changeEvery" THEN RotationChangeEvery(now)
    ELSE RotationChangeAt(now, rotation)

\* A recomputation has just run at or after the last boundary and handed
\* display d the schedule of the current rotation
NotifiedOfRotationNow(d) ==
    /\ lastOp \in {"update", "reupdate"} /\ ~hung
    /\ rotation = RotationNow
    /\ d \in notified
    /\ received[d] = rotationData

\* A wake fires, finds the rotation of the last recomputation and no change
\* in what the displays ask for
EarlyWake ==
    /\ lastOp' \in {"update", "reupdate"}
    /\ timerDisplays' = timerDisplays
    /\ rotation' = rotation
    /\ ~queryChanged /\ Len(rotationData) >= depth
    /\ ~hung'

\* C32: with a fair wake timer, once a rotation boundary has passed while
\* display d is attached, a recomputation at or after the boundary
\* eventually runs and d is notified of the new rotation, unless d is
\* detached first; a wake that fires before the boundary, with nothing
\* changed in what the displays ask for, changes nothing and reschedules
\* itself for the remaining time.
C32_BoundaryEventuallyNotified ==
    /\ \A d \in Displays :
          [](d \in Attached /\ rotation # RotationNow
             => <>(d \notin Attached \/ NotifiedOfRotationNow(d)))
    /\ [][EarlyWake
          => /\ rotationData' = rotationData
             /\ notified' = {}
             /\ timeout'.armed /\ timeout'.at > now
             /\ BagIn(timeout'.at, wakes')
             /\ rotation' = RotationNow]_vars


\* What an engine with the same settings computes when it is constructed at
\* this instant and recomputes for its first display, one without a query
FreshEngine ==
    UpdateRotation(compress, now, 0, <<>>, DefaultDepth, <<>>, <<>>, FALSE)

\* C33: the rotation and the wake instant after a recomputation depend on
\* the settings and on now only: they are those of an engine without any
\* history that recomputes at the same instant.
C33_RotationAndWakeIgnoreHistory ==
    AfterRecomputation
    => /\ rotation = FreshEngine.rotation
       /\ timeout = [armed |-> TRUE, at |-> now + FreshEngine.waitTime]

\* After time has passed, an engine that serves two displays, one of them
\* with a query, is woken a second time in a row; its schedule is not the
\* one of a new engine
C33_Witness ==
    /\ lastOp = "reupdate" /\ ~hung
    /\ now > WindowStart
    /\ rotation > 0
    /\ Len(timerDisplays) = 2 /\ query # <<>>
    /\ ~FreshEngine.hung
    /\ rotationData # FreshEngine.rotationData


\* The rule is changeAt and all its triggers are Erinn times
ErinnOnly == rotationType = "changeAt" /\ serverTimes = <<>>

\* C34: with Erinn triggers only, the rotation computed at now is the number
\* of Erinn triggers between the epoch instant and now, whatever the server
\* clock's offsets at the epoch and at now are.
C34_ErinnCountIgnoresDst ==
    ErinnOnly /\ AfterRecomputation
    => rotation = ErinnTimesPassed(epoch, now)


\* C35: for a changeAt rule without compress every upcoming entry of the
\* schedule predicts the rotation: a recomputation at the entry's start
\* instant computes a rotation whose item index is the entry's index, also
\* when two triggers fall on one instant.
C35_EntriesPredictRotation ==
    AfterRecomputation /\ rotationType = "changeAt" /\ ~compress
    => \A i \in 2..Len(rotationData) :
          JsRem(RotationChangeAt(rotationData[i][2], rotation), Len(list))
              = rotationData[i][1]


\* Entry 0 of schedule data is the active one at this instant
EntryZeroActive(data) ==
    /\ data[1][2] <= now
    /\ Len(data) >= 2 => now < data[2][2]

\* C36: every schedule handed to a display, by a notification after a
\* recomputation or by the push at attach, has entry 0 active at the moment
\* of delivery, also when the pending wake is overdue.
C36_DeliveredEntryZeroActive ==
    \A d \in Displays : received[d] # <<>> => EntryZeroActive(received[d])


\* C37: every schedule handed to a display, at attach or by a notification,
\* still holds at least that display's depth entries after the display has
\* removed the entries that do not match its query, so no display takes its
\* "invalid timerData length" branch.
C37_DeliveredCoversDepth ==
    \A d \in Displays :
        received[d] # <<>>
        => Len(updateData(d, received[d])) >= DisplayDepth(d)

\* With compress, a display with a query and one without are attached, a
\* recomputation has notified both, and the display with the query has
\* dropped entries of the schedule it was handed
C37_Witness ==
    /\ AfterRecomputation /\ rebuilt /\ compress
    /\ now > WindowStart
    /\ \E d, e \in Attached :
          /\ HasQuery(d) /\ ~HasQuery(e)
          /\ received[e] # <<>>
          /\ received[d] # <<>>
          /\ Len(updateData(d, received[d])) < Len(received[d])


----------------------------------------------------------------------------
(* A display that detaches itself inside its updateData callback *)

\* The timer callback runs updateRotation while d is the only attached
\* display; the recomputation rebuilds the schedule and, inside
\* updateAllDisplays, d.updateData calls detachDisplay(d).  detachDisplay
\* clears the timeout and resets depth and the queries, updateAllDisplays
\* then resets queryChanged, and updateRotation goes on to its last two
\* statements: clearTimeout and setTimeout.
WakeDetaching(d) ==
    /\ ~hung
    /\ timerDisplays = <<d>>
    /\ \E at \in BagToSet(wakes) :
       \E r \in {UpdateRotation(compress, now, rotation, rotationData, depth,
                                query, queryDepth, queryChanged)} :
          /\ r.rebuilt /\ ~r.hung
          /\ rotation' = r.rotation
          /\ rotationData' = r.rotationData
          /\ received' = updateAllDisplays(<<d>>, r.rotationData)
          /\ notified' = {d}
          /\ timerDisplays' = RemoveDisplay(timerDisplays, d)
          /\ depth' = DefaultDepth
          /\ query' = <<>>
          /\ queryDepth' = <<>>
          /\ queryChanged' = FALSE
          /\ timeout' = [armed |-> TRUE, at |-> now + r.waitTime]
          /\ wakes' = ScheduleWake(
                          CancelWake(wakes (-) SetToBag({at}),
                                     IF timeout.at = at THEN NoTimeout
                                     ELSE timeout),
                          now + r.waitTime)
    /\ twin' = TwinUpdateRotation(depth, query, queryDepth, twin.queryChanged)
    /\ hung' = FALSE
    /\ rebuilt' = TRUE
    /\ shared' = {}
    /\ lastOp' = "selfdetach"
    /\ UNCHANGED <<settings, now>>

NextReentrant ==
    \/ Next
    \/ \E d \in page : WakeDetaching(d)

SpecReentrant == Init /\ [][NextReentrant]_vars

\* C38: when the last attached display has detached inside its update
\* callback during a recomputation, the engine is dormant once the
\* recomputation has returned: no wake is pending, and no recomputation
\* runs while no display is attached.
C38_DormantAfterDetachInCallback ==
    /\ [](lastOp = "selfdetach" => ~timeout.armed /\ wakes = EmptyBag)
    /\ [][timerDisplays = <<>> /\ timerDisplays' = <<>>
          => lastOp' \notin {"update", "reupdate"}]_vars

====
